---- MODULE Spec2Model ----
(***************************************************************************)
(* Model of the Azure Weather Function (backend/WeatherFunction/__init__.py)*)
(*                                                                         *)
(* main(req) validates the `city` query parameter, reads the API key from  *)
(* the environment, fetches the current weather and the forecast from the  *)
(* upstream provider, and returns the normalized payload or a JSON error.  *)
(*                                                                         *)
(* Conventions                                                             *)
(*   - a Python str that the code slices, strips, searches or capitalizes  *)
(*     is a sequence of one-character strings; a str the code only passes  *)
(*     on (icons, names, messages) is a TLA+ string;                       *)
(*   - a JSON object is a function from its keys to its values; a key the  *)
(*     object lacks is not in its DOMAIN;                                  *)
(*   - temperatures are integers in tenths of a degree, wind speeds are    *)
(*     integers in hundredths of a metre per second;                       *)
(*   - a Python dict that is iterated is a sequence of <<key, value>>      *)
(*     pairs in insertion order.                                           *)
(***************************************************************************)
EXTENDS Integers, Sequences, FiniteSets, TLC

VARIABLES
    environ,        \* os.environ of the function host
    pc,             \* position of the invocation of main
    req,            \* req.params of the invocation
    city,           \* local `city` of main (after strip)
    calls,          \* upstream calls issued by the invocation, in order
    currentReply,   \* what the upstream answered to the /weather call
    forecastReply,  \* what the upstream answered to the /forecast call
    current,        \* local `current` of main: <<>> until assigned
    forecast,       \* local `forecast` of main: <<>> until assigned
    exc,            \* exception in flight ("" when none)
    sent            \* responses returned by the invocation

vars == <<environ, pc, req, city, calls, currentReply, forecastReply,
          current, forecast, exc, sent>>

----------------------------------------------------------------------------
(* Bounds of the model *)

\* number of dates of the plain forecast lists handed to _normalize, and
\* their greatest length
MaxList == 6
\* greatest length of the varied forecast lists handed to _normalize
MaxRich == 4

(* Constants of the program *)

\* `if len(daily_forecast) >= 5: break`
MaxDays == 5
\* `item["dt_txt"][:10]`
DateLen == 10
\* `current.get("cod") != 200`
CodSuccess == 200

----------------------------------------------------------------------------
(* Python str operations *)

Take(s, n) == SubSeq(s, 1, IF Len(s) < n THEN Len(s) ELSE n)

\* the whitespace characters of the model
IsSpace(c) == c \in {" ", "\t", "\n"}

RECURSIVE LStrip(_)
LStrip(s) == IF s # <<>> /\ IsSpace(Head(s)) THEN LStrip(Tail(s)) ELSE s

RECURSIVE RStrip(_)
RStrip(s) ==
    IF s # <<>> /\ IsSpace(s[Len(s)]) THEN RStrip(SubSeq(s, 1, Len(s) - 1)) ELSE s

\* str.strip()
Strip(s) == RStrip(LStrip(s))

\* `sub in s`
Contains(s, sub) ==
    \E i \in 0..(Len(s) - Len(sub)) : SubSeq(s, i + 1, i + Len(sub)) = sub

Lowers == <<"a", "b", "c", "d", "e", "f", "g", "h", "i", "j", "k", "l", "m",
            "n", "o", "p", "q", "r", "s", "t", "u", "v", "w", "x", "y", "z">>
Uppers == <<"A", "B", "C", "D", "E", "F", "G", "H", "I", "J", "K", "L", "M",
            "N", "O", "P", "Q", "R", "S", "T", "U", "V", "W", "X", "Y", "Z">>

ToUpper(c) ==
    IF \E i \in 1..Len(Lowers) : Lowers[i] = c
    THEN Uppers[CHOOSE i \in 1..Len(Lowers) : Lowers[i] = c]
    ELSE c

ToLower(c) ==
    IF \E i \in 1..Len(Uppers) : Uppers[i] = c
    THEN Lowers[CHOOSE i \in 1..Len(Uppers) : Uppers[i] = c]
    ELSE c

\* str.upper() and str.lower()
Upper(s) == [i \in 1..Len(s) |-> ToUpper(s[i])]
Lower(s) == [i \in 1..Len(s) |-> ToLower(s[i])]

\* str.capitalize(): the first character upper-cased, the rest lower-cased
Capitalize(s) == Upper(Take(s, 1)) \o Lower(SubSeq(s, 2, Len(s)))

\* code point of a character of a timestamp
Ord(c) ==
    CASE c = " " -> 32 [] c = "-" -> 45 [] c = "0" -> 48 [] c = "1" -> 49
      [] c = "2" -> 50 [] c = "3" -> 51 [] c = "4" -> 52 [] c = "5" -> 53
      [] c = "6" -> 54 [] c = "7" -> 55 [] c = "8" -> 56 [] c = "9" -> 57
      [] c = ":" -> 58

\* `a < b` on str: lexicographic by code point, a proper prefix is smaller
StrLess(a, b) ==
    LET n == IF Len(a) < Len(b) THEN Len(a) ELSE Len(b)
        diff == {i \in 1..n : a[i] # b[i]}
    IN  IF diff = {} THEN Len(a) < Len(b)
        ELSE LET k == CHOOSE i \in diff : \A j \in diff : i <= j
             IN  Ord(a[k]) < Ord(b[k])

\* round(x) of a float given in tenths: nearest integer, a tie goes to the
\* even neighbour
Round(t) ==
    LET q == t \div 10
        r == t % 10
    IN  IF r < 5 THEN q
        ELSE IF r > 5 THEN q + 1
        ELSE IF q % 2 = 0 THEN q ELSE q + 1

\* round(x, 1) of a float given in hundredths, in tenths.  On an exact
\* decimal tie the float's binary expansion decides; the speeds of the
\* model are no ties.
Round1(h) ==
    LET q == h \div 10
        r == h % 10
    IN  IF r < 5 THEN q ELSE q + 1

----------------------------------------------------------------------------
(* JSON objects *)

Has(obj, k) == k \in DOMAIN obj

Without(obj, k) == [x \in DOMAIN obj \ {k} |-> obj[x]]

\* the value resp.json() returns: the JSON object of the body
JsonObject(obj) == [json |-> "object", obj |-> obj]

----------------------------------------------------------------------------
(* _normalize *)

\* days.setdefault(date, []).append(item)
SetDefaultAppend(days, date, item) ==
    IF \E i \in 1..Len(days) : days[i][1] = date
    THEN LET i == CHOOSE j \in 1..Len(days) : days[j][1] = date
         IN  [days EXCEPT ![i] = <<date, Append(days[i][2], item)>>]
    ELSE Append(days, <<date, <<item>>>>)

\* the grouping loop: `for item in forecast.get("list", [])`, from item i on.
\* An item without "dt_txt" raises KeyError.
RECURSIVE GroupByDate(_, _, _)
GroupByDate(list, i, days) ==
    IF i > Len(list) THEN [exc |-> "", days |-> days]
    ELSE IF ~Has(list[i], "dt_txt") THEN [exc |-> "KeyError", days |-> days]
    ELSE GroupByDate(list, i + 1,
                     SetDefaultAppend(days, Take(list[i].dt_txt, DateLen), list[i]))

\* the order sorted() puts the (date, readings) pairs in: the dates are the
\* keys of a dict, hence distinct, and decide every comparison
Less(a, b) == StrLess(a[1], b[1])

\* insert pair p into the sorted sequence s, after the pairs not above it
RECURSIVE InsertSorted(_, _)
InsertSorted(s, p) ==
    IF s = <<>> THEN <<p>>
    ELSE IF Less(p, Head(s)) THEN <<p>> \o s
    ELSE <<Head(s)>> \o InsertSorted(Tail(s), p)

\* sorted(days.items())
RECURSIVE Sorted(_)
Sorted(days) ==
    IF days = <<>> THEN <<>>
    ELSE InsertSorted(Sorted(SubSeq(days, 1, Len(days) - 1)), days[Len(days)])

\* a mutant of Noon: always the first reading of the date
NoonFirstReading(readings) == readings[1]

\* next((r for r in readings if "12:00" in r["dt_txt"]), readings[0])
Noon(readings) ==
    LET hits == {i \in 1..Len(readings) :
                    Contains(readings[i].dt_txt, <<"1", "2", ":", "0", "0">>)}
    IN  IF hits = {} THEN readings[1]
        ELSE readings[CHOOSE i \in hits : \A j \in hits : i <= j]

\* min(...) and max(...) over a generator, in iteration order
RECURSIVE MinOver(_)
MinOver(xs) ==
    IF Len(xs) = 1 THEN xs[1]
    ELSE LET m == MinOver(Tail(xs)) IN IF m < xs[1] THEN m ELSE xs[1]

RECURSIVE MaxOver(_)
MaxOver(xs) ==
    IF Len(xs) = 1 THEN xs[1]
    ELSE LET m == MaxOver(Tail(xs)) IN IF m > xs[1] THEN m ELSE xs[1]

\* a mutant of DayEntry: min and max of the noon reading alone
DayEntryNoonTemps(date, readings) ==
    LET noon == Noon(readings)
    IN  [date |-> date,
         min  |-> Round(noon.main.temp_min),
         max  |-> Round(noon.main.temp_max),
         desc |-> Capitalize(noon.weather[1].description),
         icon |-> noon.weather[1].icon]

\* the dict appended to daily_forecast
DayEntry(date, readings) ==
    LET noon == Noon(readings)
    IN  [date |-> date,
         min  |-> Round(MinOver([i \in 1..Len(readings) |-> readings[i].main.temp_min])),
         max  |-> Round(MaxOver([i \in 1..Len(readings) |-> readings[i].main.temp_max])),
         desc |-> Capitalize(noon.weather[1].description),
         icon |-> noon.weather[1].icon]

\* what building the entry of one date raises ("" when nothing)
DayEntryRaises(readings) ==
    LET noon == Noon(readings)
    IN  IF \E i \in 1..Len(readings) : ~Has(readings[i], "main") THEN "KeyError"
        ELSE IF ~Has(noon, "weather") THEN "KeyError"
        ELSE IF noon.weather = <<>> THEN "IndexError"
        ELSE ""

\* a mutant of DaysFull: one entry too many
DaysFullOffByOne(daily) == Len(daily) > MaxDays

\* `if len(daily_forecast) >= 5: break`
DaysFull(daily) == Len(daily) >= MaxDays

\* the loop `for date, readings in sorted(days.items())`, from pair i on
RECURSIVE BuildDaily(_, _, _)
BuildDaily(pairs, i, daily) ==
    IF i > Len(pairs) \/ DaysFull(daily) THEN [exc |-> "", daily |-> daily]
    ELSE IF DayEntryRaises(pairs[i][2]) # ""
         THEN [exc |-> DayEntryRaises(pairs[i][2]), daily |-> daily]
    ELSE BuildDaily(pairs, i + 1, Append(daily, DayEntry(pairs[i][1], pairs[i][2])))

\* what building `now` raises ("" when nothing)
NowRaises(cur) ==
    IF ~Has(cur, "main") THEN "KeyError"
    ELSE IF ~Has(cur, "weather") THEN "KeyError"
    ELSE IF cur.weather = <<>> THEN "IndexError"
    ELSE IF ~Has(cur, "wind") THEN "KeyError"
    ELSE ""

\* the dict `now`
Now(cur) ==
    [temp       |-> Round(cur.main.temp),
     feels_like |-> Round(cur.main.feels_like),
     desc       |-> Capitalize(cur.weather[1].description),
     icon       |-> cur.weather[1].icon,
     humidity   |-> cur.main.humidity,
     wind       |-> Round1(cur.wind.speed)]

\* forecast.get("list", [])
ForecastList(fc) == IF Has(fc, "list") THEN fc.list ELSE <<>>

\* _normalize(current, forecast).  The result is [exc, value]: the exception
\* raised ("" when none) and the payload returned.
Normalize(cur, fc) ==
    LET fail(e) == [exc |-> e, value |-> <<>>]
    IN  IF NowRaises(cur) # "" THEN fail(NowRaises(cur))
        ELSE LET grouped == GroupByDate(ForecastList(fc), 1, <<>>)
             IN  IF grouped.exc # "" THEN fail(grouped.exc)
                 ELSE IF ~Has(cur, "dt") THEN fail("KeyError")
                 ELSE LET built == BuildDaily(Sorted(grouped.days), 1, <<>>)
                      IN  IF built.exc # "" THEN fail(built.exc)
                          ELSE IF ~Has(cur, "name") \/ ~Has(cur, "sys")
                               THEN fail("KeyError")
                          ELSE [exc   |-> "",
                                value |-> [city     |-> cur.name,
                                           country  |-> cur.sys.country,
                                           now      |-> Now(cur),
                                           forecast |-> built.daily]]

----------------------------------------------------------------------------
(* What the function host and the upstream can hand to main *)

\* a JSON scalar of the field "cod": the upstream sends the number 200 on
\* success and a string such as "404" on failure
JInt(n) == [t |-> "int", n |-> n, s |-> ""]
JStr(s) == [t |-> "str", n |-> 0, s |-> s]

\* no value assigned yet
Unset == [json |-> "unset", obj |-> <<>>]
\* a body that is no JSON document
Undecodable == [json |-> "undecodable", obj |-> <<>>]

\* what requests.get meets: no answer in time, no connection, or an HTTP
\* response with a status and a body
TimeoutReply == [kind |-> "timeout", status |-> 0, body |-> Unset]
ConnectionErrorReply == [kind |-> "connection_error", status |-> 0, body |-> Unset]
Response(status, body) == [kind |-> "response", status |-> status, body |-> body]
NoReply == [kind |-> "none", status |-> 0, body |-> Unset]

\* req.params: with or without the key "city"
Requests ==
    { <<>>,
      [city |-> <<>>],
      [city |-> <<" ", "\t">>],
      [city |-> <<"L", "i", "m", "a">>],
      [city |-> <<" ", "L", "i", "m", "a", " ">>] }

ApiKeyName == "OPENWEATHER_API_KEY"

\* os.environ: without the key, with an empty key, with a key
Environs ==
    { <<>>,
      [k \in {ApiKeyName} |-> ""],
      [k \in {ApiKeyName} |-> "k3y"] }

\* a successful /weather document
GoodCurrent ==
    [cod     |-> JInt(CodSuccess),
     name    |-> "Lima",
     sys     |-> [country |-> "PE"],
     dt      |-> 1706612400,
     main    |-> [temp |-> 185, feels_like |-> -25, humidity |-> 80],
     weather |-> << [description |-> <<"f", "e", "w", " ", "C", "l", "o", "u", "d", "s">>,
                     icon |-> "02d"] >>,
     wind    |-> [speed |-> 412]]

\* the upstream's error document
ErrorDoc(cod) == [cod |-> cod, message |-> "city not found"]

CurrentDocs ==
    {GoodCurrent}
    \cup {Without(GoodCurrent, k) :
              k \in {"cod", "main", "weather", "wind", "sys", "dt", "name"}}
    \cup {[GoodCurrent EXCEPT !.weather = <<>>],
          [GoodCurrent EXCEPT !.cod = JStr("200")],
          ErrorDoc(JStr("404")),
          ErrorDoc(JInt(404)),
          Without(ErrorDoc(JInt(401)), "message")}

HttpStatuses == {200, 404, 500}

CurrentReplies ==
    {TimeoutReply, ConnectionErrorReply}
    \cup {Response(st, b) :
              st \in HttpStatuses,
              b \in {JsonObject(d) : d \in CurrentDocs} \cup {Undecodable}}

\* a character string of a two-digit number
Digits == <<"0", "1", "2", "3", "4", "5", "6", "7", "8", "9">>
TwoDigits(k) == <<Digits[(k \div 10) + 1], Digits[(k % 10) + 1]>>

\* the n-th date of the model, "2024-MM-DD"; the dates are distinct and
\* their order differs from that of their indices
DateStr(n) ==
    <<"2", "0", "2", "4", "-">> \o TwoDigits(1 + (n % 2)) \o <<"-">> \o TwoDigits(10 + n)

\* the times of day of the model; "00:12:00" holds "12:00" without being noon
T0012 == <<" ", "0", "0", ":", "1", "2", ":", "0", "0">>
T0900 == <<" ", "0", "9", ":", "0", "0", ":", "0", "0">>
T1200 == <<" ", "1", "2", ":", "0", "0", ":", "0", "0">>
T1500 == <<" ", "1", "5", ":", "0", "0", ":", "0", "0">>

\* an item of the forecast list
Reading(dt, tmin, tmax, desc, icon) ==
    [dt_txt  |-> dt,
     main    |-> [temp_min |-> tmin, temp_max |-> tmax],
     weather |-> << [description |-> desc, icon |-> icon] >>]

\* one reading per date
Plain(n) == Reading(DateStr(n) \o T0900, 100 + n, 120 + n, <<"r", "a", "i", "n">>, "10d")

PlainPool == {Plain(n) : n \in 1..MaxList}

\* readings of two dates that differ in time of day, temperatures (ties of
\* rounding, negative values, temp_min above temp_max), description (mixed
\* case, empty, starting with a digit) and icon; one reading lacks "main"
RichPool ==
    { Reading(DateStr(1) \o T0900, 105, 125, <<"l", "i", "g", "h", "t", " ", "R", "a", "i", "n">>, "10d"),
      Reading(DateStr(1) \o T1200, 115, 135, <<"c", "l", "e", "a", "r">>, "01d"),
      Reading(DateStr(1) \o T1200, 121, 122, <<"M", "i", "s", "t">>, "50d"),
      Reading(DateStr(1) \o T0012, 95, 114, <<"3", " ", "o", "k", "t", "a", "s">>, "03n"),
      Reading(DateStr(1) \o T1500, 140, 100, <<>>, "04d"),
      Reading(DateStr(2) \o T1500, -25, -15, <<"s", "n", "o", "w">>, "13d"),
      Reading(DateStr(2) \o T1200, -36, 5, <<"S", "L", "E", "E", "T">>, "13n"),
      Without(Reading(DateStr(2) \o T0900, 0, 0, <<"f", "o", "g">>, "50n"), "main") }

\* the sequences over pool of length at most n
ListsUpTo(pool, n) == UNION {[1..k -> pool] : k \in 0..n}

\* the sequences over pool of length at most n without a repeated element
RECURSIVE DistinctLists(_, _)
DistinctLists(pool, n) ==
    IF n = 0 THEN {<<>>}
    ELSE LET shorter == DistinctLists(pool, n - 1)
         IN  shorter \cup
             UNION {{Append(l, x) : x \in pool \ {l[i] : i \in 1..Len(l)}} :
                        l \in {m \in shorter : Len(m) = n - 1}}

\* one reading of each date, out of order: more dates than _normalize emits
Week == [i \in 1..MaxList |-> Plain(((i * 5) % MaxList) + 1)]

\* a /forecast document
ForecastDoc(list) == [cod |-> JStr("200"), cnt |-> Len(list), list |-> list]

\* the forecast documents of the request flow: well-formed short lists, a
\* document without "list", and items without "dt_txt", without "main",
\* with an empty "weather"
FlowForecastDocs ==
    LET r1 == Reading(DateStr(1) \o T0900, 105, 125, <<"r", "a", "i", "n">>, "10d")
        r2 == Reading(DateStr(2) \o T1200, -25, -15, <<"s", "n", "o", "w">>, "13d")
    IN  {ForecastDoc(l) :
            l \in {<<>>, <<r1>>, <<r2, r1>>,
                   <<Without(r1, "dt_txt")>>,
                   <<r1, Without(r2, "main")>>,
                   <<[r1 EXCEPT !.weather = <<>>]>>}}
        \cup {Without(ForecastDoc(<<>>), "list")}

ForecastReplies ==
    {TimeoutReply, ConnectionErrorReply}
    \cup {Response(st, b) :
              st \in HttpStatuses,
              b \in {JsonObject(d) : d \in FlowForecastDocs} \cup {Undecodable}}

\* the forecast lists _normalize is exercised on: every order of every
\* choice of plain readings of distinct dates, every short list of varied
\* readings, and each of these followed by a week of plain readings
NormLists ==
    DistinctLists(PlainPool, MaxList)
    \cup ListsUpTo(RichPool, MaxRich)
    \cup {l \o Week : l \in ListsUpTo(RichPool, MaxRich)}

NormForecastReplies == {Response(200, JsonObject(ForecastDoc(l))) : l \in NormLists}

----------------------------------------------------------------------------
(* requests: exceptions *)

\* requests.exceptions.Timeout and its subclasses
IsTimeout(e) == e = "Timeout"

\* requests.exceptions.RequestException and its subclasses; resp.json()
\* raises requests.exceptions.JSONDecodeError, one of them
IsRequestException(e) ==
    e \in {"Timeout", "ConnectionError", "HTTPError", "JSONDecodeError"}

\* requests.get(...); resp.raise_for_status(); resp.json(): the exception
\* raised ("" when none) and the JSON value returned
Fetch(reply) ==
    IF reply.kind = "timeout" THEN [exc |-> "Timeout", value |-> Unset]
    ELSE IF reply.kind = "connection_error" THEN [exc |-> "ConnectionError", value |-> Unset]
    ELSE IF reply.status >= 400 /\ reply.status < 600 THEN [exc |-> "HTTPError", value |-> Unset]
    ELSE IF reply.body = Undecodable THEN [exc |-> "JSONDecodeError", value |-> Unset]
    ELSE [exc |-> "", value |-> reply.body]

----------------------------------------------------------------------------
(* main *)

\* func.HttpResponse(body=json.dumps(body), status_code=..., ...)
HttpResponse(status, body) ==
    [status_code |-> status,
     body        |-> body,
     mimetype    |-> "application/json",
     headers     |-> [h \in {"Access-Control-Allow-Origin"} |-> "*"]]

\* _error(status, message)
Error(status, message) == HttpResponse(status, [error |-> message])

\* os.environ.get("OPENWEATHER_API_KEY", "")
ApiKey == IF Has(environ, ApiKeyName) THEN environ[ApiKeyName] ELSE ""

\* the host is up and no invocation has run
Init ==
    /\ environ \in Environs
    /\ pc = "idle"
    /\ req = <<>>
    /\ city = <<>>
    /\ calls = <<>>
    /\ currentReply = NoReply
    /\ forecastReply = NoReply
    /\ current = Unset
    /\ forecast = Unset
    /\ exc = ""
    /\ sent = <<>>

\* the host invokes main(req); an invocation starts with fresh locals
Trigger(params) ==
    /\ pc \in {"idle", "returned", "raised"}
    /\ pc' = "validate"
    /\ req' = params
    /\ city' = <<>>
    /\ calls' = <<>>
    /\ currentReply' = NoReply
    /\ forecastReply' = NoReply
    /\ current' = Unset
    /\ forecast' = Unset
    /\ exc' = ""
    /\ sent' = <<>>
    /\ UNCHANGED environ

\* a mutant of ValidateInput: the parameter is not stripped
ValidateInputNoStrip ==
    /\ pc = "validate"
    /\ LET c == IF Has(req, "city") THEN req.city ELSE <<>>
       IN  /\ city' = c
           /\ IF c = <<>>
              THEN /\ sent' = <<Error(400, "Missing required parameter: city")>>
                   /\ pc' = "returned"
              ELSE /\ sent' = sent
                   /\ pc' = "read_key"
    /\ UNCHANGED <<environ, req, calls, currentReply, forecastReply, current, forecast, exc>>

\* 1. Validate input
ValidateInput ==
    /\ pc = "validate"
    /\ LET c == Strip(IF Has(req, "city") THEN req.city ELSE <<>>)
       IN  /\ city' = c
           /\ IF c = <<>>
              THEN /\ sent' = <<Error(400, "Missing required parameter: city")>>
                   /\ pc' = "returned"
              ELSE /\ sent' = sent
                   /\ pc' = "read_key"
    /\ UNCHANGED <<environ, req, calls, currentReply, forecastReply, current, forecast, exc>>

\* a mutant of ReadApiKey: only an absent key is rejected
ReadApiKeyAbsentOnly ==
    /\ pc = "read_key"
    /\ IF ~Has(environ, ApiKeyName)
       THEN /\ sent' = <<Error(500, "Server configuration error: missing API key")>>
            /\ pc' = "returned"
       ELSE /\ sent' = sent
            /\ pc' = "fetch_current"
    /\ UNCHANGED <<environ, req, city, calls, currentReply, forecastReply, current, forecast, exc>>

\* 2. Read API key from environment
ReadApiKey ==
    /\ pc = "read_key"
    /\ IF ApiKey = ""
       THEN /\ sent' = <<Error(500, "Server configuration error: missing API key")>>
            /\ pc' = "returned"
       ELSE /\ sent' = sent
            /\ pc' = "fetch_current"
    /\ UNCHANGED <<environ, req, city, calls, currentReply, forecastReply, current, forecast, exc>>

\* 3. current = _fetch_current(city, api_key)
FetchCurrent(reply) ==
    /\ pc = "fetch_current"
    /\ calls' = Append(calls, [endpoint |-> "weather", q |-> city, appid |-> ApiKey])
    /\ currentReply' = reply
    /\ IF Fetch(reply).exc # ""
       THEN /\ exc' = Fetch(reply).exc
            /\ pc' = "except"
            /\ UNCHANGED current
       ELSE /\ current' = Fetch(reply).value
            /\ pc' = "fetch_forecast"
            /\ UNCHANGED exc
    /\ UNCHANGED <<environ, req, city, forecastReply, forecast, sent>>

\* 3. forecast = _fetch_forecast(city, api_key)
FetchForecast(reply) ==
    /\ pc = "fetch_forecast"
    /\ calls' = Append(calls, [endpoint |-> "forecast", q |-> city, appid |-> ApiKey])
    /\ forecastReply' = reply
    /\ IF Fetch(reply).exc # ""
       THEN /\ exc' = Fetch(reply).exc
            /\ pc' = "except"
            /\ UNCHANGED forecast
       ELSE /\ forecast' = Fetch(reply).value
            /\ pc' = "check_cod"
            /\ UNCHANGED exc
    /\ UNCHANGED <<environ, req, city, currentReply, current, sent>>

\* a mutant of HandleException: RequestException is caught first
HandleExceptionGenericFirst ==
    /\ pc = "except"
    /\ IF IsRequestException(exc)
       THEN /\ sent' = <<Error(502, "Failed to reach weather service.")>>
            /\ pc' = "returned"
            /\ exc' = ""
       ELSE IF IsTimeout(exc)
       THEN /\ sent' = <<Error(504, "Upstream API timed out. Please try again.")>>
            /\ pc' = "returned"
            /\ exc' = ""
       ELSE /\ pc' = "raised"
            /\ UNCHANGED <<sent, exc>>
    /\ UNCHANGED <<environ, req, city, calls, currentReply, forecastReply, current, forecast>>

\* a mutant of HandleException: a timeout is retried
HandleExceptionRetry ==
    /\ pc = "except"
    /\ IF IsTimeout(exc) /\ Len(calls) < 3
       THEN /\ pc' = "fetch_current"
            /\ exc' = ""
            /\ sent' = sent
       ELSE /\ sent' = <<Error(502, "Failed to reach weather service.")>>
            /\ pc' = "returned"
            /\ exc' = ""
    /\ UNCHANGED <<environ, req, city, calls, currentReply, forecastReply, current, forecast>>

\* the except clauses of the try around the two fetches
HandleException ==
    /\ pc = "except"
    /\ IF IsTimeout(exc)
       THEN /\ sent' = <<Error(504, "Upstream API timed out. Please try again.")>>
            /\ pc' = "returned"
            /\ exc' = ""
       ELSE IF IsRequestException(exc)
       THEN /\ sent' = <<Error(502, "Failed to reach weather service.")>>
            /\ pc' = "returned"
            /\ exc' = ""
       ELSE /\ pc' = "raised"
            /\ UNCHANGED <<sent, exc>>
    /\ UNCHANGED <<environ, req, city, calls, currentReply, forecastReply, current, forecast>>

\* current.get("cod") != 200
CodIsError(cur) == ~Has(cur, "cod") \/ cur.cod # JInt(CodSuccess)

\* current.get("message", "City not found")
Message(cur) == IF Has(cur, "message") THEN cur.message ELSE "City not found"

\* 4. Handle upstream errors (e.g. city not found)
CheckCod ==
    /\ pc = "check_cod"
    /\ IF CodIsError(current.obj)
       THEN /\ sent' = <<Error(404, "OpenWeather error: " \o Message(current.obj))>>
            /\ pc' = "returned"
       ELSE /\ sent' = sent
            /\ pc' = "normalize"
    /\ UNCHANGED exc
    /\ UNCHANGED <<environ, req, city, calls, currentReply, forecastReply, current, forecast>>

\* 5. Normalize and return
NormalizeAndReturn ==
    /\ pc = "normalize"
    /\ LET res == Normalize(current.obj, forecast.obj)
       IN  IF res.exc # ""
           THEN /\ exc' = res.exc
                /\ pc' = "raised"
                /\ sent' = sent
           ELSE /\ sent' = <<HttpResponse(200, res.value)>>
                /\ pc' = "returned"
                /\ exc' = exc
    /\ UNCHANGED <<environ, req, city, calls, currentReply, forecastReply, current, forecast>>

Next ==
    \/ \E params \in Requests : Trigger(params)
    \/ ValidateInput
    \/ ReadApiKey
    \/ pc = "fetch_current" /\ \E reply \in CurrentReplies : FetchCurrent(reply)
    \/ pc = "fetch_forecast" /\ \E reply \in ForecastReplies : FetchForecast(reply)
    \/ HandleException
    \/ CheckCod
    \/ NormalizeAndReturn

Spec == Init /\ [][Next]_vars

\* the request flow with a good request, a configured key and a good
\* /weather reply, over the forecast lists of the two pools
InitNorm ==
    /\ Init
    /\ ApiKey # ""

NextNorm ==
    \/ Trigger([city |-> <<"L", "i", "m", "a">>])
    \/ ValidateInput
    \/ ReadApiKey
    \/ FetchCurrent(Response(200, JsonObject(GoodCurrent)))
    \/ pc = "fetch_forecast" /\ \E reply \in NormForecastReplies : FetchForecast(reply)
    \/ CheckCod
    \/ NormalizeAndReturn

SpecNorm == InitNorm /\ [][NextNorm]_vars

----------------------------------------------------------------------------
(* Properties *)

\* the invocation has ended: main returned a response or raised
Terminal == pc \in {"returned", "raised"}

\* main returned a response with this status
ReturnedStatus(st) == pc = "returned" /\ Len(sent) = 1 /\ sent[1].status_code = st

\* main returned a JSON {error: message} body
ErrorBody == Len(sent) = 1 /\ DOMAIN sent[1].body = {"error"}

\* the `city` query parameter as the caller sent it ("" when absent)
CityParam == IF Has(req, "city") THEN req.city ELSE <<>>

\* the parameter is absent, empty or whitespace only
CityBlank == \A i \in 1..Len(CityParam) : CityParam[i] \in {" ", "\t", "\n"}

\* OPENWEATHER_API_KEY is absent from the environment or empty
KeyMissing == ~(ApiKeyName \in DOMAIN environ) \/ environ[ApiKeyName] = ""

\* the reply is a network timeout
TransportTimeout(r) == r.kind = "timeout"

\* the reply is another transport failure: no connection, a status that
\* raise_for_status raises on, a body that is no JSON
TransportOther(r) ==
    \/ r.kind = "connection_error"
    \/ r.kind = "response" /\ (r.status \notin 200..299 \/ r.body.json = "undecodable")

TransportFailure(r) == TransportTimeout(r) \/ TransportOther(r)

\* the reply of the first upstream call that failed (the /forecast reply is
\* NoReply as long as that call is not made)
FirstFailure == IF TransportFailure(currentReply) THEN currentReply ELSE forecastReply

\* C1: a request whose city is absent, empty or whitespace only is answered
\* 400 with an {error} body, whatever the API key is, and without any
\* upstream call
C1_BlankCity400 ==
    (pc \notin {"idle", "validate"} /\ CityBlank)
        => (ReturnedStatus(400) /\ ErrorBody /\ calls = <<>>)

C1_Witness ==
    /\ ReturnedStatus(400)
    /\ CityParam # <<>>
    /\ CityBlank
    /\ ~KeyMissing

\* C2 as stated: with the API key absent or empty every request, a blank
\* city included, is answered 500
C2_MissingKeyAlways500 == (Terminal /\ KeyMissing) => ReturnedStatus(500)

\* C2 amended: with the API key absent or empty, a request whose city is not
\* blank is answered 500 with an {error} body and without any upstream call;
\* a request whose city is blank is answered 400
C2_MissingKey500 ==
    (pc \notin {"idle", "validate", "read_key"} /\ KeyMissing)
        => /\ ErrorBody
           /\ calls = <<>>
           /\ IF CityBlank THEN ReturnedStatus(400) ELSE ReturnedStatus(500)

C2_Witness ==
    /\ ReturnedStatus(500)
    /\ KeyMissing
    /\ ~CityBlank

\* the /weather reply carries a document whose "cod" is not 200
UpstreamReportsError ==
    /\ currentReply.kind = "response"
    /\ currentReply.body.json = "object"
    /\ \/ ~("cod" \in DOMAIN currentReply.body.obj)
       \/ currentReply.body.obj.cod # JInt(200)

\* the upstream's message ("City not found" when it sends none)
UpstreamMessage ==
    IF "message" \in DOMAIN currentReply.body.obj
    THEN currentReply.body.obj.message
    ELSE "City not found"

\* C3: whenever the /weather reply reports "cod" other than 200, whatever
\* its HTTP status and whatever the /forecast call does, main returns 404
\* with the upstream message in the error
C3_UpstreamError404 ==
    (Terminal /\ UpstreamReportsError)
        => /\ ReturnedStatus(404)
           /\ sent[1].body = [error |-> "OpenWeather error: " \o UpstreamMessage]

\* C4: when the first upstream call that fails fails with a timeout, main
\* returns 504; when it fails with another transport failure, main returns
\* 502; a transport failure ends in no other way
C4_TransportFailureStatus ==
    /\ TransportFailure(FirstFailure) => pc \in {"except", "returned"}
    /\ (Terminal /\ TransportTimeout(FirstFailure)) => (ReturnedStatus(504) /\ ErrorBody)
    /\ (Terminal /\ TransportOther(FirstFailure)) => (ReturnedStatus(502) /\ ErrorBody)

C4_Witness ==
    /\ ReturnedStatus(504)
    /\ ~TransportFailure(currentReply)
    /\ TransportTimeout(forecastReply)

\* C5: every invocation ends by returning a response whose status is one of
\* 200, 400, 404, 500, 502, 504, with an {error} body unless it is 200; none
\* ends with an exception
C5_AlwaysAResponse ==
    Terminal
        => /\ pc = "returned"
           /\ Len(sent) = 1
           /\ sent[1].status_code \in {200, 400, 404, 500, 502, 504}
           /\ sent[1].status_code # 200 => ErrorBody

\* the endpoints called so far, in order
Endpoints == [i \in 1..Len(calls) |-> calls[i].endpoint]

\* the calls of an invocation are a prefix of /weather, /forecast; none is
\* made before a 400 or a 500; /forecast is called only after /weather
\* answered without a transport failure
CallOrder ==
    /\ Endpoints \in {<<>>, <<"weather">>, <<"weather", "forecast">>}
    /\ (ReturnedStatus(400) \/ ReturnedStatus(500)) => calls = <<>>
    /\ Len(calls) = 2 => ~TransportFailure(currentReply)

\* once a call failed or main ended, no call is added until the host
\* starts the next invocation
NoCallAfterFailure ==
    (pc \in {"except", "returned", "raised"}) => (calls' = calls \/ pc' = "validate")

\* C8: /weather is called at most once, /forecast at most once and only
\* after /weather answered without a transport failure; a 400 or a 500 is
\* returned without any call; once a call failed or main ended, the
\* invocation makes no further call
C8_SequentialNoRetry == []CallOrder /\ [][NoCallAfterFailure]_vars

C8_Witness ==
    /\ ReturnedStatus(502)
    /\ Endpoints = <<"weather", "forecast">>
    /\ TransportOther(forecastReply)

\* main returned 200: the upstream list and the forecast array made of it
Normalized == ReturnedStatus(200)
UpstreamList ==
    IF "list" \in DOMAIN forecastReply.body.obj THEN forecastReply.body.obj.list ELSE <<>>
Emitted == sent[1].body.forecast

\* the calendar date of a reading: the first 10 characters of dt_txt
DateOf(r) == SubSeq(r.dt_txt, 1, 10)

UpstreamDates == {DateOf(UpstreamList[k]) : k \in 1..Len(UpstreamList)}

\* the positions of the readings of a date, and the least of a set of them
ReadingsOf(date) == {k \in 1..Len(UpstreamList) : DateOf(UpstreamList[k]) = date}
First(ks) == CHOOSE k \in ks : \A j \in ks : k <= j

NoonOf(date) ==
    LET noons == {k \in ReadingsOf(date) :
                     Contains(UpstreamList[k].dt_txt, <<"1", "2", ":", "0", "0">>)}
    IN  UpstreamList[First(IF noons # {} THEN noons ELSE ReadingsOf(date))]

\* a description with its first letter upper-cased and nothing else changed
FirstLetterUpper(d) == [i \in 1..Len(d) |-> IF i = 1 THEN ToUpper(d[i]) ELSE d[i]]

\* a description with its first letter upper-cased and the others lower-cased
FirstUpperRestLower(d) ==
    [i \in 1..Len(d) |-> IF i = 1 THEN ToUpper(d[i]) ELSE ToLower(d[i])]

\* C9 as stated: desc is the chosen reading's description with its first
\* letter capitalized, icon is the chosen reading's icon
C9_NoonDescAsWritten ==
    Normalized
        => \A i \in 1..Len(Emitted) :
               /\ Emitted[i].icon = NoonOf(Emitted[i].date).weather[1].icon
               /\ Emitted[i].desc =
                      FirstLetterUpper(NoonOf(Emitted[i].date).weather[1].description)

\* C9 amended: desc is the chosen reading's description with its first
\* letter upper-cased and its other letters lower-cased
C9_NoonDesc ==
    Normalized
        => \A i \in 1..Len(Emitted) :
               /\ Emitted[i].icon = NoonOf(Emitted[i].date).weather[1].icon
               /\ Emitted[i].desc =
                      FirstUpperRestLower(NoonOf(Emitted[i].date).weather[1].description)

C9_Witness ==
    /\ Normalized
    /\ \E i \in 1..Len(Emitted) :
           /\ NoonOf(Emitted[i].date) # UpstreamList[First(ReadingsOf(Emitted[i].date))]
           /\ Emitted[i].desc # NoonOf(Emitted[i].date).weather[1].description
    /\ \E i \in 1..Len(Emitted) :
           /\ Cardinality(ReadingsOf(Emitted[i].date)) > 1
           /\ \A k \in ReadingsOf(Emitted[i].date) :
                  ~Contains(UpstreamList[k].dt_txt, <<"1", "2", ":", "0", "0">>)

\* the temperatures, in tenths, of the readings of a date
TempMins(date) == {UpstreamList[k].main.temp_min : k \in ReadingsOf(date)}
TempMaxs(date) == {UpstreamList[k].main.temp_max : k \in ReadingsOf(date)}
Least(S) == CHOOSE x \in S : \A y \in S : x <= y
Greatest(S) == CHOOSE x \in S : \A y \in S : x >= y

\* n is an integer nearest to t tenths
Nearest(n, t) == (10 * n - t) \in -5..5

\* C10: min is the rounded least temp_min and max the rounded greatest
\* temp_max of all readings of the date; if no reading has temp_min above
\* temp_max, no entry has min above max
C10_MinMax ==
    Normalized
        => /\ \A i \in 1..Len(Emitted) :
                  /\ Emitted[i].min = Round(Least(TempMins(Emitted[i].date)))
                  /\ Emitted[i].max = Round(Greatest(TempMaxs(Emitted[i].date)))
                  /\ Nearest(Emitted[i].min, Least(TempMins(Emitted[i].date)))
                  /\ Nearest(Emitted[i].max, Greatest(TempMaxs(Emitted[i].date)))
           /\ (\A k \in 1..Len(UpstreamList) :
                   UpstreamList[k].main.temp_min <= UpstreamList[k].main.temp_max)
                  => \A i \in 1..Len(Emitted) : Emitted[i].min <= Emitted[i].max

C10_Witness ==
    /\ Normalized
    /\ \A k \in 1..Len(UpstreamList) :
           UpstreamList[k].main.temp_min <= UpstreamList[k].main.temp_max
    /\ \E i \in 1..Len(Emitted) :
           /\ Cardinality(TempMins(Emitted[i].date)) > 1
           /\ NoonOf(Emitted[i].date).main.temp_min > Least(TempMins(Emitted[i].date))
           /\ NoonOf(Emitted[i].date).main.temp_max < Greatest(TempMaxs(Emitted[i].date))
           /\ Least(TempMins(Emitted[i].date)) % 10 = 5

====
